---- MODULE Spec2Model ----
(***************************************************************************)
(* A model of research/mal_resampler.h: the resampler object               *)
(* (struct mal_resampler), its configuration, and the public operations    *)
(* init, set_rate, set_rate_ratio, read, seek and the cache/time queries.  *)
(*                                                                         *)
(* C doubles are modelled as exact rationals <<n, d>> (d > 0, lowest       *)
(* terms) extended with the IEEE special values +Inf = <<1,0>>,            *)
(* -Inf = <<-1,0>> and NaN = <<0,0>>.  The sign of zero is not modelled;    *)
(* NaN and infinity are, because the comparisons in the code treat them    *)
(* specially.  Rounding is modelled where a property depends on it: the    *)
(* rounded_* operators and RoundedSpec round every result to a significand *)
(* of MantissaBits bits.                                                   *)
(***************************************************************************)
EXTENDS Integers, Sequences, FiniteSets, TLC

VARIABLES
    rs,             \* the mal_resampler object (struct mal_resampler)
    initResult,     \* result of the latest mal_resampler_init on the object
    call,           \* the latest API call: its name, arguments and return value
    client,         \* the client behind config.onRead: frames it holds, position, calls
    totalReturned,  \* sum of the counts returned by read/seek since the latest init
    written         \* the frames the latest read stored through ppFrames

vars == <<rs, initResult, call, client, totalReturned, written>>

(***************************************************************************)
(* Bounds of the model.                                                    *)
(***************************************************************************)
MaxFrames == 3
MaxChannels == 1
MaxTotal == 200

(***************************************************************************)
(* double arithmetic                                                       *)
(***************************************************************************)
RECURSIVE GCD(_, _)
GCD(a, b) == IF b = 0 THEN a ELSE GCD(b, a % b)

Abs(a) == IF a < 0 THEN -a ELSE a

Sign(a) == IF a < 0 THEN -1 ELSE IF a > 0 THEN 1 ELSE 0

NaN == <<0, 0>>

PosInf == <<1, 0>>

NegInf == <<-1, 0>>

\* The double n/d for integers n and d # 0.
Frac(n, d) ==
    LET g == GCD(Abs(n), Abs(d))
        s == IF d < 0 THEN -1 ELSE 1
    IN  <<(s * n) \div g, (s * d) \div g>>

\* (double)n for an integer n.
ToDouble(n) == <<n, 1>>

IsNaN(x) == x = NaN

IsInf(x) == x[2] = 0 /\ x[1] # 0

IsFinite(x) == x[2] # 0

\* x < y as C evaluates it: false when either side is NaN.
DLt(x, y) ==
    IF IsNaN(x) \/ IsNaN(y) THEN FALSE
    ELSE IF IsFinite(x) /\ IsFinite(y) THEN x[1] * y[2] < y[1] * x[2]
    ELSE IF IsInf(x) /\ IsInf(y) THEN x[1] < y[1]
    ELSE IF IsInf(x) THEN x[1] < 0
    ELSE y[1] > 0

DGt(x, y) == DLt(y, x)

\* x == y as C evaluates it: false when either side is NaN.
DEq(x, y) == ~IsNaN(x) /\ ~IsNaN(y) /\ x = y

DGe(x, y) == DGt(x, y) \/ DEq(x, y)

DLe(x, y) == DLt(x, y) \/ DEq(x, y)

DNeg(x) == <<-x[1], x[2]>>

DAdd(x, y) ==
    IF IsNaN(x) \/ IsNaN(y) THEN NaN
    ELSE IF IsInf(x) /\ IsInf(y) THEN (IF x = y THEN x ELSE NaN)
    ELSE IF IsInf(x) THEN x
    ELSE IF IsInf(y) THEN y
    ELSE Frac(x[1] * y[2] + y[1] * x[2], x[2] * y[2])

DSub(x, y) == DAdd(x, DNeg(y))

DMul(x, y) ==
    IF IsNaN(x) \/ IsNaN(y) THEN NaN
    ELSE IF IsInf(x) \/ IsInf(y)
         THEN (IF x[1] = 0 \/ y[1] = 0 THEN NaN
               ELSE <<Sign(x[1]) * Sign(y[1]), 0>>)
    ELSE Frac(x[1] * y[1], x[2] * y[2])

DDiv(x, y) ==
    IF IsNaN(x) \/ IsNaN(y) THEN NaN
    ELSE IF IsInf(x) /\ IsInf(y) THEN NaN
    ELSE IF IsInf(x) THEN <<Sign(x[1]) * (IF y[1] < 0 THEN -1 ELSE 1), 0>>
    ELSE IF IsInf(y) THEN <<0, 1>>
    ELSE IF y[1] = 0 THEN (IF x[1] = 0 THEN NaN ELSE <<Sign(x[1]), 0>>)
    ELSE Frac(x[1] * y[2], x[2] * y[1])

\* floor() and ceil() of <math.h>: NaN and the infinities are returned unchanged.
DFloor(x) == IF IsFinite(x) THEN <<x[1] \div x[2], 1>> ELSE x

DCeil(x) == IF IsFinite(x) THEN <<-((-x[1]) \div x[2]), 1>> ELSE x

(***************************************************************************)
(* Constants of the program                                                *)
(***************************************************************************)
MAL_RESAMPLER_SEEK_NO_CLIENT_READ == 1

MAL_RESAMPLER_SEEK_INPUT_RATE == 2

MAL_RESAMPLER_CACHE_SIZE_IN_BYTES == 4096

MAL_RESAMPLER_MIN_RATIO == Frac(1, 1000)

MAL_RESAMPLER_MAX_RATIO == Frac(100, 1)

NULL == "NULL"

MAL_SUCCESS == "MAL_SUCCESS"

MAL_INVALID_ARGS == "MAL_INVALID_ARGS"

\* typedef enum mal_resampler_algorithm: sinc is the enumerator 0.
mal_resampler_algorithm == {"mal_resampler_algorithm_sinc", "mal_resampler_algorithm_linear"}

\* typedef enum mal_resampler_end_of_input_mode: consume is the enumerator 0.
mal_resampler_end_of_input_mode ==
    {"mal_resampler_end_of_input_mode_consume", "mal_resampler_end_of_input_mode_no_consume"}

(***************************************************************************)
(* Inputs the callers draw from                                            *)
(***************************************************************************)
\* A pointer to the resampler object, or NULL.
Handles == {NULL, "pResampler"}

\* Formats a config can name; s24 stands for every format but f32 and s16.
Formats == {"mal_format_f32", "mal_format_s16", "mal_format_s24"}

Channels == 0..MaxChannels

\* Sample rates: 0, and rates whose quotients fall below MIN_RATIO (24/48000),
\* on it (24/24000), inside the range and above MAX_RATIO (24000/24).
Rates == {0, 24, 24000, 48000}

\* Explicit ratios of a config: unset, negative, below MIN, inside, MAX, above MAX.
ConfigRatios == {Frac(0, 1), Frac(-1, 1), Frac(1, 2000), Frac(1, 1), Frac(100, 1), Frac(101, 1)}

\* Arguments of set_rate_ratio.
RatioArgs == {Frac(-1, 1), Frac(1, 2000), Frac(1, 1000), Frac(2, 1), Frac(100, 1), Frac(101, 1), NaN}

Callbacks == {NULL, "onRead"}

FrameCounts == 0..MaxFrames

\* Frames the client behind onRead holds when the resampler is initialized.
ClientTotals == {0, 100}

\* typedef struct mal_resampler_config
Configs ==
    [format : Formats, channels : Channels, sampleRateIn : Rates, sampleRateOut : Rates,
     ratio : ConfigRatios, algorithm : mal_resampler_algorithm,
     endOfInputMode : mal_resampler_end_of_input_mode,
     onRead : Callbacks, pUserData : {"pUserData"}]

\* A config pointer: NULL, or a pointer to a config.
ConfigPtr(cfg) == [isNull |-> FALSE, val |-> cfg]

NullConfigPtr == [isNull |-> TRUE]

(***************************************************************************)
(* struct mal_resampler                                                    *)
(***************************************************************************)
\* The object after mal_zero_object: every member is all-bits-zero.
ZeroObject ==
    [cache |-> "zero",
     firstCachedFrameOffset |-> 0,
     cacheLengthInFrames |-> 0,
     windowLength |-> 0,
     windowTime |-> ToDouble(0),
     config |-> [format |-> "mal_format_unknown", channels |-> 0, sampleRateIn |-> 0,
                 sampleRateOut |-> 0, ratio |-> ToDouble(0),
                 algorithm |-> "mal_resampler_algorithm_sinc",
                 endOfInputMode |-> "mal_resampler_end_of_input_mode_consume",
                 onRead |-> NULL, pUserData |-> NULL],
     init |-> NULL, read |-> NULL, seek |-> NULL]

\* The object before the first mal_resampler_init: its storage is not yet
\* initialized, and no operation but init is applied to it.
RawObject == [ZeroObject EXCEPT !.cache = "indeterminate"]

\* ratio < MIN || ratio > MAX, as the two mutators test it.
RatioTooExtreme(ratio) ==
    DLt(ratio, MAL_RESAMPLER_MIN_RATIO) \/ DGt(ratio, MAL_RESAMPLER_MAX_RATIO)

(***************************************************************************)
(* Sinc backend initializer                                                *)
(***************************************************************************)
mal_resampler_init__sinc(s) == MAL_SUCCESS

(***************************************************************************)
(* mal_resampler_init                                                      *)
(***************************************************************************)
\* The function pointers the switch on config.algorithm binds.
BindAlgorithm(s) ==
    IF s.config.algorithm = "mal_resampler_algorithm_linear"
    THEN [s EXCEPT !.init = NULL,
                   !.read = "mal_resampler_read__linear",
                   !.seek = "mal_resampler_seek__linear"]
    ELSE [s EXCEPT !.init = "mal_resampler_init__sinc",
                   !.read = "mal_resampler_read__sinc",
                   !.seek = "mal_resampler_seek__sinc"]

\* Mutant: the backend is bound before the config is validated, so an init
\* that fails leaves the read and seek procedures in the object.
mal_resampler_init_binds_first(pConfig, pResampler, s) ==
    IF pResampler = NULL THEN [ret |-> MAL_INVALID_ARGS, rs |-> s]
    ELSE IF pConfig.isNull THEN [ret |-> MAL_INVALID_ARGS, rs |-> ZeroObject]
    ELSE
      LET s1 == BindAlgorithm([ZeroObject EXCEPT !.config = pConfig.val])
          c  == s1.config
      IN  IF c.format # "mal_format_f32" /\ c.format # "mal_format_s16"
          THEN [ret |-> MAL_INVALID_ARGS, rs |-> s1]
          ELSE IF c.channels = 0
          THEN [ret |-> MAL_INVALID_ARGS, rs |-> s1]
          ELSE IF DEq(c.ratio, ToDouble(0)) /\ (c.sampleRateIn = 0 \/ c.sampleRateOut = 0)
          THEN [ret |-> MAL_INVALID_ARGS, rs |-> s1]
          ELSE
            LET s2 == IF DEq(c.ratio, ToDouble(0))
                      THEN [s1 EXCEPT !.config.ratio =
                                DDiv(ToDouble(c.sampleRateIn), ToDouble(c.sampleRateOut))]
                      ELSE s1
            IN  IF s2.config.onRead = NULL
                THEN [ret |-> MAL_INVALID_ARGS, rs |-> s2]
                ELSE [ret |-> MAL_SUCCESS, rs |-> s2]

\* Mutant: the quotient of the rates replaces an explicit ratio whenever both
\* rates are given.
mal_resampler_init_rates_first(pConfig, pResampler, s) ==
    IF pResampler = NULL THEN [ret |-> MAL_INVALID_ARGS, rs |-> s]
    ELSE IF pConfig.isNull THEN [ret |-> MAL_INVALID_ARGS, rs |-> ZeroObject]
    ELSE
      LET s1 == [ZeroObject EXCEPT !.config = pConfig.val]
          c  == s1.config
      IN  IF c.format # "mal_format_f32" /\ c.format # "mal_format_s16"
          THEN [ret |-> MAL_INVALID_ARGS, rs |-> s1]
          ELSE IF c.channels = 0
          THEN [ret |-> MAL_INVALID_ARGS, rs |-> s1]
          ELSE IF DEq(c.ratio, ToDouble(0)) /\ (c.sampleRateIn = 0 \/ c.sampleRateOut = 0)
          THEN [ret |-> MAL_INVALID_ARGS, rs |-> s1]
          ELSE
            LET s2 == IF c.sampleRateIn # 0 /\ c.sampleRateOut # 0
                      THEN [s1 EXCEPT !.config.ratio =
                                DDiv(ToDouble(c.sampleRateIn), ToDouble(c.sampleRateOut))]
                      ELSE s1
            IN  IF s2.config.onRead = NULL
                THEN [ret |-> MAL_INVALID_ARGS, rs |-> s2]
                ELSE [ret |-> MAL_SUCCESS, rs |-> BindAlgorithm(s2)]

\* [ret, rs]: the result code and the object as the call leaves it.
mal_resampler_init(pConfig, pResampler, s) ==
    IF pResampler = NULL THEN [ret |-> MAL_INVALID_ARGS, rs |-> s]
    ELSE IF pConfig.isNull THEN [ret |-> MAL_INVALID_ARGS, rs |-> ZeroObject]
    ELSE
      LET s1 == [ZeroObject EXCEPT !.config = pConfig.val]
          c  == s1.config
      IN  IF c.format # "mal_format_f32" /\ c.format # "mal_format_s16"
          THEN [ret |-> MAL_INVALID_ARGS, rs |-> s1]
          ELSE IF c.channels = 0
          THEN [ret |-> MAL_INVALID_ARGS, rs |-> s1]
          ELSE IF DEq(c.ratio, ToDouble(0)) /\ (c.sampleRateIn = 0 \/ c.sampleRateOut = 0)
          THEN [ret |-> MAL_INVALID_ARGS, rs |-> s1]
          ELSE
            LET s2 == IF DEq(c.ratio, ToDouble(0))
                      THEN [s1 EXCEPT !.config.ratio =
                                DDiv(ToDouble(c.sampleRateIn), ToDouble(c.sampleRateOut))]
                      ELSE s1
            IN  IF s2.config.onRead = NULL
                THEN [ret |-> MAL_INVALID_ARGS, rs |-> s2]
                ELSE
                  LET s3 == BindAlgorithm(s2)
                  IN  IF s3.init # NULL /\ mal_resampler_init__sinc(s3) # MAL_SUCCESS
                      THEN [ret |-> mal_resampler_init__sinc(s3), rs |-> s3]
                      ELSE [ret |-> MAL_SUCCESS, rs |-> s3]

(***************************************************************************)
(* mal_resampler_uninit                                                    *)
(***************************************************************************)
mal_resampler_uninit(pResampler, s) == s

(***************************************************************************)
(* mal_resampler_set_rate                                                  *)
(***************************************************************************)
mal_resampler_set_rate(pResampler, s, sampleRateIn, sampleRateOut) ==
    IF pResampler = NULL THEN [ret |-> MAL_INVALID_ARGS, rs |-> s]
    ELSE IF sampleRateIn = 0 \/ sampleRateOut = 0 THEN [ret |-> MAL_INVALID_ARGS, rs |-> s]
    ELSE
      LET ratio == DDiv(ToDouble(s.config.sampleRateIn), ToDouble(s.config.sampleRateOut))
      IN  IF RatioTooExtreme(ratio)
          THEN [ret |-> MAL_INVALID_ARGS, rs |-> s]
          ELSE [ret |-> MAL_SUCCESS,
                rs  |-> [s EXCEPT !.config.sampleRateIn = sampleRateIn,
                                  !.config.sampleRateOut = sampleRateOut,
                                  !.config.ratio = ratio]]

(***************************************************************************)
(* mal_resampler_set_rate_ratio                                            *)
(***************************************************************************)
\* Mutant: a successful change of the ratio also switches the object to the
\* linear algorithm and rebinds its read and seek procedures.
mal_resampler_set_rate_ratio_rebinds(pResampler, s, ratio) ==
    IF pResampler = NULL THEN [ret |-> MAL_INVALID_ARGS, rs |-> s]
    ELSE IF RatioTooExtreme(ratio) THEN [ret |-> MAL_INVALID_ARGS, rs |-> s]
    ELSE [ret |-> MAL_SUCCESS,
          rs |-> BindAlgorithm([s EXCEPT !.config.ratio = ratio,
                                         !.config.algorithm = "mal_resampler_algorithm_linear"])]

mal_resampler_set_rate_ratio(pResampler, s, ratio) ==
    IF pResampler = NULL THEN [ret |-> MAL_INVALID_ARGS, rs |-> s]
    ELSE IF RatioTooExtreme(ratio) THEN [ret |-> MAL_INVALID_ARGS, rs |-> s]
    ELSE [ret |-> MAL_SUCCESS, rs |-> [s EXCEPT !.config.ratio = ratio]]

(***************************************************************************)
(* Backends.  Each takes the object s and the client c and yields          *)
(* [ret, rs, client, written, asserts]: the count returned, the object and *)
(* the client as the call leaves them, the frames stored through ppFrames, *)
(* and whether the mal_assert()s at its head held.                         *)
(***************************************************************************)
\* Mutant: the read pads its output with silence up to the count asked for.
mal_resampler_read__linear_padded(s, c, frameCount, ppFrames) ==
    [ret |-> frameCount, rs |-> s, client |-> c,
     written |-> [j \in 1..frameCount |-> 0],
     asserts |-> (s.config.onRead # NULL /\ frameCount > 0 /\ ppFrames # NULL)]

mal_resampler_read__linear(s, c, frameCount, ppFrames) ==
    [ret |-> 0, rs |-> s, client |-> c, written |-> <<>>,
     asserts |-> (s.config.onRead # NULL /\ frameCount > 0 /\ ppFrames # NULL)]

\* Mutant: the seek moves the window forward without filling the cache.
mal_resampler_seek__linear_moves_window(s, c, frameCount, options) ==
    [ret |-> 0, rs |-> [s EXCEPT !.windowTime = DAdd(@, ToDouble(frameCount))],
     client |-> c, written |-> <<>>,
     asserts |-> (s.config.onRead # NULL /\ frameCount > 0)]

mal_resampler_seek__linear(s, c, frameCount, options) ==
    [ret |-> 0, rs |-> s, client |-> c, written |-> <<>>,
     asserts |-> (s.config.onRead # NULL /\ frameCount > 0)]

\* Mutant: the read moves the window forward by the frames asked for although
\* it caches nothing.
mal_resampler_read__sinc_advances_window(s, c, frameCount, ppFrames) ==
    [ret |-> 0, rs |-> [s EXCEPT !.windowTime = DAdd(@, ToDouble(frameCount))],
     client |-> c, written |-> <<>>,
     asserts |-> (s.config.onRead # NULL /\ frameCount > 0 /\ ppFrames # NULL)]

mal_resampler_read__sinc(s, c, frameCount, ppFrames) ==
    [ret |-> 0, rs |-> s, client |-> c, written |-> <<>>,
     asserts |-> (s.config.onRead # NULL /\ frameCount > 0 /\ ppFrames # NULL)]

\* Mutant: the seek asks the client for the frames it skips, whatever the options.
mal_resampler_seek__sinc_reads_client(s, c, frameCount, options) ==
    [ret |-> 0, rs |-> s,
     client |-> [c EXCEPT !.calls = @ + 1,
                          !.pos = IF @ + frameCount > c.total THEN c.total
                                  ELSE @ + frameCount],
     written |-> <<>>,
     asserts |-> (s.config.onRead # NULL /\ frameCount > 0)]

mal_resampler_seek__sinc(s, c, frameCount, options) ==
    [ret |-> 0, rs |-> s, client |-> c, written |-> <<>>,
     asserts |-> (s.config.onRead # NULL /\ frameCount > 0)]

\* A call through the function pointer pResampler->read.
CallReadProc(s, c, frameCount, ppFrames) ==
    IF s.read = "mal_resampler_read__linear"
    THEN mal_resampler_read__linear(s, c, frameCount, ppFrames)
    ELSE mal_resampler_read__sinc(s, c, frameCount, ppFrames)

\* A call through the function pointer pResampler->seek.
CallSeekProc(s, c, frameCount, options) ==
    IF s.seek = "mal_resampler_seek__linear"
    THEN mal_resampler_seek__linear(s, c, frameCount, options)
    ELSE mal_resampler_seek__sinc(s, c, frameCount, options)

\* What read and seek yield on their early returns.
Returns0(s, c) == [ret |-> 0, rs |-> s, client |-> c, written |-> <<>>, asserts |-> TRUE]

(***************************************************************************)
(* mal_resampler_seek, mal_resampler_read                                  *)
(***************************************************************************)
\* Mutant: a frame count of 0 is not returned early but handed to the backend.
mal_resampler_seek_no_zero_check(pResampler, s, c, frameCount, options) ==
    IF pResampler = NULL \/ s.seek = NULL THEN Returns0(s, c)
    ELSE CallSeekProc(s, c, frameCount, options)

mal_resampler_seek(pResampler, s, c, frameCount, options) ==
    IF pResampler = NULL \/ s.seek = NULL THEN Returns0(s, c)
    ELSE IF frameCount = 0 THEN Returns0(s, c)
    ELSE CallSeekProc(s, c, frameCount, options)

\* Mutant: a NULL ppFrames is not turned into a seek but handed to the backend.
mal_resampler_read_no_seek(pResampler, s, c, frameCount, ppFrames) ==
    IF pResampler = NULL \/ s.read = NULL THEN Returns0(s, c)
    ELSE IF frameCount = 0 THEN Returns0(s, c)
    ELSE CallReadProc(s, c, frameCount, ppFrames)

mal_resampler_read(pResampler, s, c, frameCount, ppFrames) ==
    IF pResampler = NULL \/ s.read = NULL THEN Returns0(s, c)
    ELSE IF frameCount = 0 THEN Returns0(s, c)
    ELSE IF ppFrames = NULL THEN mal_resampler_seek(pResampler, s, c, frameCount, 0)
    ELSE CallReadProc(s, c, frameCount, ppFrames)

(***************************************************************************)
(* Queries                                                                 *)
(***************************************************************************)
\* Values a conversion of a double to mal_uint64 may yield where C leaves it
\* undefined (the truncated value is negative, infinite or NaN).
UndefinedU64 == 0..MaxFrames

\* (mal_uint64)x: the set of values the conversion may yield.
CastU64(x) ==
    IF IsFinite(x) /\ -((-x[1]) \div x[2]) >= 0
    THEN {IF x[1] >= 0 THEN x[1] \div x[2] ELSE 0}
    ELSE UndefinedU64

\* windowLength >> 1
ShiftRight1(n) == n \div 2

\* Mutant: the whole window is held back in both end-of-input modes.
mal_resampler__calculate_cached_input_time_whole_window(s) ==
    DSub(ToDouble(s.cacheLengthInFrames), DAdd(s.windowTime, ToDouble(s.windowLength)))

mal_resampler__calculate_cached_input_time(s) ==
    IF s.config.endOfInputMode = "mal_resampler_end_of_input_mode_consume"
    THEN DSub(ToDouble(s.cacheLengthInFrames),
              DAdd(s.windowTime, ToDouble(ShiftRight1(s.windowLength))))
    ELSE DSub(ToDouble(s.cacheLengthInFrames),
              DAdd(s.windowTime, ToDouble(s.windowLength)))

mal_resampler_get_cached_input_time(pResampler, s) ==
    IF pResampler = NULL THEN ToDouble(0)
    ELSE mal_resampler__calculate_cached_input_time(s)

mal_resampler__calculate_cached_output_time(s) ==
    DDiv(mal_resampler__calculate_cached_input_time(s), s.config.ratio)

mal_resampler_get_cached_output_time(pResampler, s) ==
    IF pResampler = NULL THEN ToDouble(0)
    ELSE mal_resampler__calculate_cached_output_time(s)

\* The set of values the call may return (one value unless the cast is undefined).
mal_resampler_get_cached_input_frame_count(pResampler, s) ==
    CastU64(DCeil(mal_resampler_get_cached_input_time(pResampler, s)))

mal_resampler_get_cached_output_frame_count(pResampler, s) ==
    CastU64(DFloor(mal_resampler_get_cached_output_time(pResampler, s)))

\* The set of outcomes [ret, asserts]: the value returned, and "ok" or the
\* mal_assert() that failed on the way.
mal_resampler_get_required_input_frame_count(pResampler, s, outputFrameCount) ==
    IF pResampler = NULL THEN {[ret |-> 0, asserts |-> "ok"]}
    ELSE IF outputFrameCount = 0 THEN {[ret |-> 0, asserts |-> "ok"]}
    ELSE
      LET cachedOutputTime == mal_resampler__calculate_cached_output_time(s)
      IN  IF DGe(cachedOutputTime, ToDouble(outputFrameCount))
          THEN {[ret |-> 0, asserts |-> "ok"]}
          ELSE
            LET nonCachedOutputTime == DSub(ToDouble(outputFrameCount), cachedOutputTime)
            IN  {[ret |-> requiredInputFrames,
                  asserts |-> IF ~DGt(nonCachedOutputTime, ToDouble(0))
                              THEN "nonCachedOutputTime > 0"
                              ELSE IF ~(requiredInputFrames > 0)
                              THEN "requiredInputFrames > 0"
                              ELSE "ok"] :
                 requiredInputFrames \in
                     CastU64(DCeil(DMul(nonCachedOutputTime, s.config.ratio)))}

\* The set of values the call may return.
mal_resampler_get_expected_output_frame_count(pResampler, s, inputFrameCount) ==
    IF pResampler = NULL THEN {0}
    ELSE IF inputFrameCount = 0 THEN {0}
    ELSE CastU64(DFloor(DDiv(DAdd(mal_resampler__calculate_cached_input_time(s),
                                  ToDouble(inputFrameCount)),
                             s.config.ratio)))

(***************************************************************************)
(* The state machine.  A caller makes one API call at a time: the call     *)
(* acts on the object and leaves its arguments and result in `call`;       *)
(* Return is the caller taking the result, after which it may call again.  *)
(***************************************************************************)
Idle == [name |-> "idle"]

\* Seek options: every combination of the two flags.
SeekOptions ==
    {0, MAL_RESAMPLER_SEEK_NO_CLIENT_READ, MAL_RESAMPLER_SEEK_INPUT_RATE,
     MAL_RESAMPLER_SEEK_NO_CLIENT_READ + MAL_RESAMPLER_SEEK_INPUT_RATE}

FrameBuffers == {NULL, "ppFrames"}

\* A config init is given together with a NULL object (init does not read it).
AnyConfig == CHOOSE cfg \in Configs : TRUE

\* The argument pairs <<pConfig, pResampler>> of mal_resampler_init.
InitArgs ==
    ({NullConfigPtr} \cup {ConfigPtr(cfg) : cfg \in Configs}) \X {"pResampler"}
        \cup {<<NullConfigPtr, NULL>>, <<ConfigPtr(AnyConfig), NULL>>}

\* The object has been handed to mal_resampler_init at least once.
Constructed == initResult # "none"

Init ==
    /\ rs = RawObject
    /\ initResult = "none"
    /\ call = Idle
    /\ client = [total |-> 0, pos |-> 0, calls |-> 0]
    /\ totalReturned = 0
    /\ written = <<>>

\* mal_resampler_init(pConfig, pResampler); the client behind the callback is a
\* fresh stream of `total` frames.  The call zeroes the object before anything
\* else and the client starts anew, so an init of an object that was initialized
\* before leads to exactly the states an init of a raw object leads to: a
\* behaviour initializes its object once.
DoInit(pConfig, pResampler, total) ==
    /\ call = Idle
    /\ ~Constructed
    /\ LET res == mal_resampler_init(pConfig, pResampler, rs)
       IN  /\ rs' = res.rs
           /\ call' = [name |-> "mal_resampler_init", pConfig |-> pConfig,
                       pResampler |-> pResampler, ret |-> res.ret]
           /\ IF pResampler = NULL
              THEN UNCHANGED <<initResult, client, totalReturned, written>>
              ELSE /\ initResult' = res.ret
                   /\ client' = [total |-> total, pos |-> 0, calls |-> 0]
                   /\ totalReturned' = 0
                   /\ written' = <<>>

Uninit(pResampler) ==
    /\ call = Idle
    /\ Constructed
    /\ rs' = mal_resampler_uninit(pResampler, rs)
    /\ call' = [name |-> "mal_resampler_uninit", pResampler |-> pResampler]
    /\ UNCHANGED <<initResult, client, totalReturned, written>>

SetRate(pResampler, sampleRateIn, sampleRateOut) ==
    /\ call = Idle
    /\ Constructed
    /\ LET res == mal_resampler_set_rate(pResampler, rs, sampleRateIn, sampleRateOut)
       IN  /\ rs' = res.rs
           /\ call' = [name |-> "mal_resampler_set_rate", pResampler |-> pResampler,
                       sampleRateIn |-> sampleRateIn, sampleRateOut |-> sampleRateOut,
                       ret |-> res.ret]
    /\ UNCHANGED <<initResult, client, totalReturned, written>>

SetRateRatio(pResampler, ratio) ==
    /\ call = Idle
    /\ Constructed
    /\ LET res == mal_resampler_set_rate_ratio(pResampler, rs, ratio)
       IN  /\ rs' = res.rs
           /\ call' = [name |-> "mal_resampler_set_rate_ratio", pResampler |-> pResampler,
                       ratio |-> ratio, ret |-> res.ret]
    /\ UNCHANGED <<initResult, client, totalReturned, written>>

Read(pResampler, frameCount, ppFrames) ==
    /\ call = Idle
    /\ Constructed
    /\ totalReturned <= MaxTotal
    /\ LET res == mal_resampler_read(pResampler, rs, client, frameCount, ppFrames)
       IN  /\ rs' = res.rs
           /\ client' = res.client
           /\ written' = res.written
           /\ totalReturned' = totalReturned + res.ret
           /\ call' = [name |-> "mal_resampler_read", pResampler |-> pResampler,
                       frameCount |-> frameCount, ppFrames |-> ppFrames,
                       ret |-> res.ret, asserts |-> res.asserts]
    /\ UNCHANGED initResult

Seek(pResampler, frameCount, options) ==
    /\ call = Idle
    /\ Constructed
    /\ LET res == mal_resampler_seek(pResampler, rs, client, frameCount, options)
       IN  /\ rs' = res.rs
           /\ client' = res.client
           /\ call' = [name |-> "mal_resampler_seek", pResampler |-> pResampler,
                       frameCount |-> frameCount, options |-> options,
                       ret |-> res.ret, asserts |-> res.asserts]
    /\ UNCHANGED <<initResult, totalReturned, written>>

GetCachedInputFrameCount(pResampler) ==
    /\ call = Idle
    /\ Constructed
    /\ \E ret \in mal_resampler_get_cached_input_frame_count(pResampler, rs) :
           call' = [name |-> "mal_resampler_get_cached_input_frame_count",
                    pResampler |-> pResampler, ret |-> ret]
    /\ UNCHANGED <<rs, initResult, client, totalReturned, written>>

GetCachedOutputFrameCount(pResampler) ==
    /\ call = Idle
    /\ Constructed
    /\ \E ret \in mal_resampler_get_cached_output_frame_count(pResampler, rs) :
           call' = [name |-> "mal_resampler_get_cached_output_frame_count",
                    pResampler |-> pResampler, ret |-> ret]
    /\ UNCHANGED <<rs, initResult, client, totalReturned, written>>

GetCachedInputTime(pResampler) ==
    /\ call = Idle
    /\ Constructed
    /\ call' = [name |-> "mal_resampler_get_cached_input_time", pResampler |-> pResampler,
                ret |-> mal_resampler_get_cached_input_time(pResampler, rs)]
    /\ UNCHANGED <<rs, initResult, client, totalReturned, written>>

GetCachedOutputTime(pResampler) ==
    /\ call = Idle
    /\ Constructed
    /\ call' = [name |-> "mal_resampler_get_cached_output_time", pResampler |-> pResampler,
                ret |-> mal_resampler_get_cached_output_time(pResampler, rs)]
    /\ UNCHANGED <<rs, initResult, client, totalReturned, written>>

GetRequiredInputFrameCount(pResampler, outputFrameCount) ==
    /\ call = Idle
    /\ Constructed
    /\ \E out \in mal_resampler_get_required_input_frame_count(pResampler, rs, outputFrameCount) :
           call' = [name |-> "mal_resampler_get_required_input_frame_count",
                    pResampler |-> pResampler, outputFrameCount |-> outputFrameCount,
                    ret |-> out.ret, asserts |-> out.asserts]
    /\ UNCHANGED <<rs, initResult, client, totalReturned, written>>

GetExpectedOutputFrameCount(pResampler, inputFrameCount) ==
    /\ call = Idle
    /\ Constructed
    /\ \E ret \in mal_resampler_get_expected_output_frame_count(pResampler, rs, inputFrameCount) :
           call' = [name |-> "mal_resampler_get_expected_output_frame_count",
                    pResampler |-> pResampler, inputFrameCount |-> inputFrameCount,
                    ret |-> ret]
    /\ UNCHANGED <<rs, initResult, client, totalReturned, written>>

\* The caller takes the result of the call.
Return ==
    /\ call # Idle
    /\ call' = Idle
    /\ UNCHANGED <<rs, initResult, client, totalReturned, written>>

\* The guards shared by the calls of one kind stand before the choice of arguments.
Ready == call = Idle /\ Constructed

InitCalls ==
    /\ call = Idle /\ ~Constructed
    /\ \E a \in InitArgs, total \in ClientTotals : DoInit(a[1], a[2], total)

UninitCalls == Ready /\ \E p \in Handles : Uninit(p)

SetRateCalls == Ready /\ \E p \in Handles, i \in Rates, o \in Rates : SetRate(p, i, o)

SetRateRatioCalls == Ready /\ \E p \in Handles, r \in RatioArgs : SetRateRatio(p, r)

ReadCalls ==
    Ready /\ \E p \in Handles, n \in FrameCounts, b \in FrameBuffers : Read(p, n, b)

SeekCalls ==
    Ready /\ \E p \in Handles, n \in FrameCounts, o \in SeekOptions : Seek(p, n, o)

QueryCalls ==
    /\ Ready
    /\ \/ \E p \in Handles : GetCachedInputFrameCount(p)
       \/ \E p \in Handles : GetCachedOutputFrameCount(p)
       \/ \E p \in Handles : GetCachedInputTime(p)
       \/ \E p \in Handles : GetCachedOutputTime(p)
       \/ \E p \in Handles, n \in FrameCounts : GetRequiredInputFrameCount(p, n)
       \/ \E p \in Handles, n \in FrameCounts : GetExpectedOutputFrameCount(p, n)

Next ==
    \/ InitCalls
    \/ UninitCalls
    \/ SetRateCalls
    \/ SetRateRatioCalls
    \/ ReadCalls
    \/ SeekCalls
    \/ QueryCalls
    \/ Return

Spec == Init /\ [][Next]_vars

(***************************************************************************)
(* Streaming: one initialization followed by reads and seeks only, so the  *)
(* configuration the object was initialized with stays in force.           *)
(***************************************************************************)
StreamNext ==
    \/ InitCalls
    \/ ReadCalls
    \/ SeekCalls
    \/ Return

StreamSpec == Init /\ [][StreamNext]_vars

\* A read that asks for at least one frame and passes a buffer.
ReadFrames ==
    Ready /\ \E n \in FrameCounts \ {0} : Read("pResampler", n, "ppFrames")

\* One initialization followed by reads only.
ReadOnlyNext ==
    \/ InitCalls
    \/ ReadCalls
    \/ Return

\* The caller of the end-of-stream scenario does nothing but read, and keeps
\* reading: it takes every result, and whenever it may call again it
\* eventually reads a positive count into a buffer.
FairReadSpec ==
    Init /\ [][ReadOnlyNext]_vars /\ WF_vars(Return) /\ SF_vars(ReadFrames)

(***************************************************************************)
(* Queries as pure functions of the object: the cache and window fields    *)
(* are drawn from bounded sets, then the queries are applied.              *)
(***************************************************************************)
MaxCacheLength == 4
MaxWindowLength == 3

\* windowTime in steps of half a frame.
WindowTimes == {Frac(k, 2) : k \in 0..(2 * MaxCacheLength)}

QueryRatios == {Frac(1, 1000), Frac(1, 2), Frac(1, 1), Frac(3, 2), Frac(2, 1), Frac(100, 1)}

\* A successfully initialized object (f32, one channel) of the given mode and
\* ratio, with the given cache and window bookkeeping.
QueryObject(mode, ratio, len, wlen, wtime) ==
    LET cfg == [format |-> "mal_format_f32", channels |-> 1, sampleRateIn |-> 0,
                sampleRateOut |-> 0, ratio |-> ratio,
                algorithm |-> "mal_resampler_algorithm_linear",
                endOfInputMode |-> mode, onRead |-> "onRead", pUserData |-> "pUserData"]
        s == mal_resampler_init(ConfigPtr(cfg), "pResampler", RawObject).rs
    IN  [s EXCEPT !.cacheLengthInFrames = len, !.windowLength = wlen, !.windowTime = wtime]

QueryInit ==
    /\ \E mode \in mal_resampler_end_of_input_mode, ratio \in QueryRatios,
          len \in 0..MaxCacheLength, wlen \in 0..MaxWindowLength, wtime \in WindowTimes :
          rs = QueryObject(mode, ratio, len, wlen, wtime)
    /\ initResult = MAL_SUCCESS
    /\ call = Idle
    /\ client = [total |-> 0, pos |-> 0, calls |-> 0]
    /\ totalReturned = 0
    /\ written = <<>>

QueryNext ==
    \/ QueryCalls
    \/ Return

QuerySpec == QueryInit /\ [][QueryNext]_vars

(***************************************************************************)
(* The queries in rounded arithmetic.  The operators above compute on      *)
(* exact fractions; the code computes on doubles, where the result of      *)
(* every operation is rounded to the nearest value whose significand fits  *)
(* (ties to the even significand).  Below, the same computations with that *)
(* rounding, to a significand of MantissaBits bits (a double has 53).     *)
(***************************************************************************)
MantissaBits == 4

\* The exponents the values of the model need.
Exponents == -14..8

RECURSIVE Pow2(_)
Pow2(k) == IF k = 0 THEN 1 ELSE 2 * Pow2(k - 1)

\* |x| * 2^-e as <<numerator, denominator>>.
Scaled(x, e) ==
    IF e >= 0 THEN <<Abs(x[1]), x[2] * Pow2(e)>> ELSE <<Abs(x[1]) * Pow2(-e), x[2]>>

\* The result of an operation whose exact value is x: x rounded to the nearest
\* value m * 2^e with 2^(MantissaBits-1) <= m < 2^MantissaBits, ties to even m.
RoundDouble(x) ==
    IF ~IsFinite(x) \/ x[1] = 0 THEN x
    ELSE
      LET e == CHOOSE k \in Exponents :
                   /\ Scaled(x, k)[1] >= Pow2(MantissaBits - 1) * Scaled(x, k)[2]
                   /\ Scaled(x, k)[1] < Pow2(MantissaBits) * Scaled(x, k)[2]
          q == Scaled(x, e)
          lo == q[1] \div q[2]
          rem2 == 2 * (q[1] % q[2])
          m == IF rem2 > q[2] \/ (rem2 = q[2] /\ lo % 2 = 1) THEN lo + 1 ELSE lo
      IN  IF e >= 0 THEN Frac(Sign(x[1]) * m * Pow2(e), 1)
          ELSE Frac(Sign(x[1]) * m, Pow2(-e))

\* (double)n of an integer n
IntToDouble(n) == RoundDouble(ToDouble(n))

RAdd(x, y) == RoundDouble(DAdd(x, y))

RSub(x, y) == RoundDouble(DSub(x, y))

RMul(x, y) == RoundDouble(DMul(x, y))

RDiv(x, y) == RoundDouble(DDiv(x, y))

rounded_calculate_cached_input_time(s) ==
    IF s.config.endOfInputMode = "mal_resampler_end_of_input_mode_consume"
    THEN RSub(IntToDouble(s.cacheLengthInFrames),
              RAdd(s.windowTime, IntToDouble(ShiftRight1(s.windowLength))))
    ELSE RSub(IntToDouble(s.cacheLengthInFrames),
              RAdd(s.windowTime, IntToDouble(s.windowLength)))

rounded_calculate_cached_output_time(s) ==
    RDiv(rounded_calculate_cached_input_time(s), s.config.ratio)

\* The set of values the call may return.
rounded_get_cached_output_frame_count(pResampler, s) ==
    CastU64(DFloor(IF pResampler = NULL THEN ToDouble(0)
                   ELSE rounded_calculate_cached_output_time(s)))

\* The set of outcomes [ret, asserts].
rounded_get_required_input_frame_count(pResampler, s, outputFrameCount) ==
    IF pResampler = NULL THEN {[ret |-> 0, asserts |-> "ok"]}
    ELSE IF outputFrameCount = 0 THEN {[ret |-> 0, asserts |-> "ok"]}
    ELSE
      LET cachedOutputTime == rounded_calculate_cached_output_time(s)
      IN  IF DGe(cachedOutputTime, IntToDouble(outputFrameCount))
          THEN {[ret |-> 0, asserts |-> "ok"]}
          ELSE
            LET nonCachedOutputTime == RSub(IntToDouble(outputFrameCount), cachedOutputTime)
            IN  {[ret |-> requiredInputFrames,
                  asserts |-> IF ~DGt(nonCachedOutputTime, ToDouble(0))
                              THEN "nonCachedOutputTime > 0"
                              ELSE IF ~(requiredInputFrames > 0)
                              THEN "requiredInputFrames > 0"
                              ELSE "ok"] :
                 requiredInputFrames \in
                     CastU64(DCeil(RMul(nonCachedOutputTime, s.config.ratio)))}

\* The rates whose quotient, rounded, is the ratio of an object.
RoundedRates == {3, 4, 5, 7, 9}

\* The ratios: (double)sampleRateIn / (double)sampleRateOut.
RoundedRatios ==
    {RDiv(IntToDouble(i), IntToDouble(o)) : i \in RoundedRates, o \in RoundedRates}

\* windowTime in steps of half a frame, as far as the significand holds them.
RoundedWindowTimes == {RoundDouble(t) : t \in WindowTimes}

RoundedInit ==
    /\ \E mode \in mal_resampler_end_of_input_mode, ratio \in RoundedRatios,
          len \in 0..MaxCacheLength, wlen \in 0..MaxWindowLength,
          wtime \in RoundedWindowTimes :
          rs = QueryObject(mode, ratio, len, wlen, wtime)
    /\ initResult = MAL_SUCCESS
    /\ call = Idle
    /\ client = [total |-> 0, pos |-> 0, calls |-> 0]
    /\ totalReturned = 0
    /\ written = <<>>

RoundedGetCachedOutputFrameCount(pResampler) ==
    /\ call = Idle
    /\ \E ret \in rounded_get_cached_output_frame_count(pResampler, rs) :
           call' = [name |-> "mal_resampler_get_cached_output_frame_count",
                    pResampler |-> pResampler, ret |-> ret]
    /\ UNCHANGED <<rs, initResult, client, totalReturned, written>>

RoundedGetRequiredInputFrameCount(pResampler, outputFrameCount) ==
    /\ call = Idle
    /\ \E out \in rounded_get_required_input_frame_count(pResampler, rs, outputFrameCount) :
           call' = [name |-> "mal_resampler_get_required_input_frame_count",
                    pResampler |-> pResampler, outputFrameCount |-> outputFrameCount,
                    ret |-> out.ret, asserts |-> out.asserts]
    /\ UNCHANGED <<rs, initResult, client, totalReturned, written>>

RoundedQueryCalls ==
    /\ call = Idle
    /\ \/ \E p \in Handles : RoundedGetCachedOutputFrameCount(p)
       \/ \E p \in Handles, n \in FrameCounts : RoundedGetRequiredInputFrameCount(p, n)

RoundedNext ==
    \/ RoundedQueryCalls
    \/ Return

RoundedSpec == RoundedInit /\ [][RoundedNext]_vars

(***************************************************************************)
(* Properties                                                              *)
(***************************************************************************)
\* MIN_RATIO <= ratio <= MAX_RATIO
InRatioBounds(ratio) ==
    DGe(ratio, MAL_RESAMPLER_MIN_RATIO) /\ DLe(ratio, MAL_RESAMPLER_MAX_RATIO)

\* The latest init of the object succeeded.
Initialized == initResult = MAL_SUCCESS

\* The latest call was `name`, made on the object (not on a NULL handle).
Called(name) == call.name = name /\ call.pResampler # NULL

\* C1: on an initialized engine, set_rate with nonzero rates succeeds exactly
\* when sampleRateIn/sampleRateOut of THIS call lies in [MIN_RATIO, MAX_RATIO],
\* and after a success the stored ratio is the stored sampleRateIn divided by
\* the stored sampleRateOut.
C1_SetRateJudgesNewRates ==
    (Initialized /\ Called("mal_resampler_set_rate")
        /\ call.sampleRateIn # 0 /\ call.sampleRateOut # 0) =>
       /\ (call.ret = MAL_SUCCESS) <=>
              InRatioBounds(DDiv(ToDouble(call.sampleRateIn), ToDouble(call.sampleRateOut)))
       /\ (call.ret = MAL_SUCCESS) =>
              DEq(rs.config.ratio,
                  DDiv(ToDouble(rs.config.sampleRateIn), ToDouble(rs.config.sampleRateOut)))

\* C2: in every state after a successful init, whatever calls followed, the
\* live ratio satisfies MIN_RATIO <= ratio <= MAX_RATIO.
C2_RatioInBounds == Initialized => InRatioBounds(rs.config.ratio)

\* The ratio init works with: the explicit one, or the one derived from the rates.
EffectiveRatio(cfg) ==
    IF DEq(cfg.ratio, ToDouble(0))
    THEN DDiv(ToDouble(cfg.sampleRateIn), ToDouble(cfg.sampleRateOut))
    ELSE cfg.ratio

\* C3: init returns an invalid-argument error exactly when the handle is NULL,
\* the config is NULL, the format is neither f32 nor s16, the channel count is
\* 0, the ratio is unset and a rate is 0, the callback is missing, or the ratio
\* (explicit or derived) is outside [MIN_RATIO, MAX_RATIO]; else it succeeds.
C3_InitValidation ==
    call.name = "mal_resampler_init" =>
       /\ call.ret \in {MAL_SUCCESS, MAL_INVALID_ARGS}
       /\ (call.ret = MAL_INVALID_ARGS) <=>
            \/ call.pResampler = NULL
            \/ call.pConfig.isNull
            \/ LET cfg == call.pConfig.val
               IN  \/ cfg.format \notin {"mal_format_f32", "mal_format_s16"}
                   \/ cfg.channels = 0
                   \/ DEq(cfg.ratio, ToDouble(0))
                        /\ (cfg.sampleRateIn = 0 \/ cfg.sampleRateOut = 0)
                   \/ cfg.onRead = NULL
                   \/ ~InRatioBounds(EffectiveRatio(cfg))

\* C4: a set_rate whose rates give a ratio outside [MIN_RATIO, MAX_RATIO] or
\* include a zero, and a set_rate_ratio with a ratio outside the range, return
\* an error and leave every field of the object as it was before the call.
C4_RejectedMutationKeepsState ==
    [][(/\ Initialized
        /\ \/ /\ call'.name = "mal_resampler_set_rate" /\ call'.pResampler # NULL
              /\ \/ call'.sampleRateIn = 0
                 \/ call'.sampleRateOut = 0
                 \/ ~InRatioBounds(DDiv(ToDouble(call'.sampleRateIn),
                                        ToDouble(call'.sampleRateOut)))
           \/ /\ call'.name = "mal_resampler_set_rate_ratio" /\ call'.pResampler # NULL
              /\ ~InRatioBounds(call'.ratio))
       => (call'.ret = MAL_INVALID_ARGS /\ rs' = rs)]_vars

\* The object as init leaves it when given the configuration s has.
FreshObject(s) == mal_resampler_init(ConfigPtr(s.config), "pResampler", s).rs

\* C5: against a client that can supply T frames in all, the sum of the counts
\* the reads have returned never exceeds
\* get_expected_output_frame_count(T) of the freshly initialized engine.
C5_TruthfulOutput ==
    Initialized =>
        \A expected \in mal_resampler_get_expected_output_frame_count(
                            "pResampler", FreshObject(rs), client.total) :
            totalReturned <= expected

C5_Witness ==
    /\ Initialized
    /\ Called("mal_resampler_read")
    /\ call.frameCount > 0
    /\ call.ppFrames # NULL
    /\ client.total > 0
    /\ InRatioBounds(rs.config.ratio)

\* The end-of-stream scenario: 48000 -> 24000, Linear, Consume, one channel,
\* a client of 100 frames.
Scenario ==
    /\ Initialized
    /\ rs.config.sampleRateIn = 48000
    /\ rs.config.sampleRateOut = 24000
    /\ rs.config.ratio = Frac(2, 1)
    /\ rs.config.algorithm = "mal_resampler_algorithm_linear"
    /\ rs.config.endOfInputMode = "mal_resampler_end_of_input_mode_consume"
    /\ rs.config.channels = 1
    /\ client.total = 100

\* C6: in the scenario, repeated reads of a positive count eventually bring the
\* cumulative total to exactly 50 with a call that returns fewer frames than
\* asked, and every read after that returns 0.
C6_EndOfStream ==
    /\ (Scenario /\ totalReturned = 0) ~>
          (Scenario /\ totalReturned = 50 /\ Called("mal_resampler_read")
              /\ call.ret < call.frameCount)
    /\ [][(Scenario /\ totalReturned = 50 /\ call'.name = "mal_resampler_read")
              => call'.ret = 0]_vars

\* The value of the client's i-th frame (on every channel).
ClientFrame(i) == i

\* C7: at ratio 1, under either algorithm, read(N, buffer) with N no larger
\* than the remaining input returns N and stores the next N input frames.
C7_FastPath ==
    LET before == totalReturned - call.ret
    IN  (Initialized /\ Called("mal_resampler_read") /\ call.ppFrames # NULL
            /\ DEq(rs.config.ratio, ToDouble(1))
            /\ call.frameCount <= client.total - before) =>
           /\ call.ret = call.frameCount
           /\ written = [j \in 1..call.frameCount |-> ClientFrame(before + j)]

\* C8: from any state of the object and for any frame count, read(frameCount,
\* NULL) and seek(frameCount, 0) return the same count, leave the same object
\* and make the same requests to the client.
C8_ReadNullIsSeek ==
    Constructed =>
        \A p \in Handles, n \in FrameCounts :
            mal_resampler_read(p, rs, client, n, NULL)
                = mal_resampler_seek(p, rs, client, n, 0)

C8_Witness ==
    /\ Initialized
    /\ Called("mal_resampler_read")
    /\ call.ppFrames = NULL
    /\ call.frameCount > 0

\* The frames the cached input time holds back: a part of the window that
\* depends on the end-of-input mode.
ReservedExactHalf(s) ==
    IF s.config.endOfInputMode = "mal_resampler_end_of_input_mode_consume"
    THEN Frac(s.windowLength, 2)
    ELSE ToDouble(s.windowLength)

ReservedHalfRoundedDown(s) ==
    IF s.config.endOfInputMode = "mal_resampler_end_of_input_mode_consume"
    THEN ToDouble(s.windowLength \div 2)
    ELSE ToDouble(s.windowLength)

\* cacheLengthInFrames - windowTime - reserved
CachedInputTimeWith(s, reserved) ==
    DSub(DSub(ToDouble(s.cacheLengthInFrames), s.windowTime), reserved)

\* C9 as claimed: get_cached_input_time() is cacheLengthInFrames - windowTime -
\* reserved with reserved exactly windowLength/2 (not rounded) in Consume mode
\* and windowLength in NoConsume mode; get_cached_output_time() is that value
\* divided by the ratio.
C9_ReservedExactHalf ==
    /\ Called("mal_resampler_get_cached_input_time") =>
           call.ret = CachedInputTimeWith(rs, ReservedExactHalf(rs))
    /\ Called("mal_resampler_get_cached_output_time") =>
           call.ret = DDiv(CachedInputTimeWith(rs, ReservedExactHalf(rs)), rs.config.ratio)

\* C9 as amended: the same with reserved = windowLength/2 rounded down
\* (windowLength >> 1) in Consume mode.
C9_ReservedHalfRoundedDown ==
    /\ Called("mal_resampler_get_cached_input_time") =>
           call.ret = CachedInputTimeWith(rs, ReservedHalfRoundedDown(rs))
    /\ Called("mal_resampler_get_cached_output_time") =>
           call.ret = DDiv(CachedInputTimeWith(rs, ReservedHalfRoundedDown(rs)),
                           rs.config.ratio)

C9_Witness ==
    /\ Called("mal_resampler_get_cached_output_time")
    /\ rs.config.endOfInputMode = "mal_resampler_end_of_input_mode_consume"
    /\ rs.windowLength = 3
    /\ rs.cacheLengthInFrames = 4
    /\ rs.windowTime = Frac(1, 2)
    /\ rs.config.ratio = Frac(3, 2)
    /\ call.ret = Frac(5, 3)

\* C10: on an initialized engine and for outputFrameCount >= 1,
\* get_required_input_frame_count returns 0 when the cached output time covers
\* the request and else ceil((outputFrameCount - cachedOutputTime) * ratio),
\* which is > 0, with both internal assertions holding.
C10_RequiredInputPositive ==
    (Initialized /\ Called("mal_resampler_get_required_input_frame_count")
        /\ call.outputFrameCount >= 1) =>
       LET cachedOutputTime == mal_resampler__calculate_cached_output_time(rs)
           wanted == DCeil(DMul(DSub(ToDouble(call.outputFrameCount), cachedOutputTime),
                                rs.config.ratio))
       IN  IF DGe(cachedOutputTime, ToDouble(call.outputFrameCount))
           THEN call.ret = 0
           ELSE /\ ToDouble(call.ret) = wanted
                /\ call.ret > 0
                /\ call.asserts = "ok"

\* C11: for every inputFrameCount >= 0, 0 included,
\* get_expected_output_frame_count(inputFrameCount) is
\* floor((cachedInputTime + inputFrameCount) / ratio).  Stated for the objects
\* whose cached input time is not negative, where that floor is a frame count.
C11_ExpectedCountsCachedInput ==
    LET cachedInputTime == mal_resampler__calculate_cached_input_time(rs)
    IN  (Called("mal_resampler_get_expected_output_frame_count")
            /\ DGe(cachedInputTime, ToDouble(0))) =>
           ToDouble(call.ret) =
               DFloor(DDiv(DAdd(cachedInputTime, ToDouble(call.inputFrameCount)),
                           rs.config.ratio))

\* C12: for a ratio in [MIN_RATIO, MAX_RATIO], an object whose cached input time
\* is not negative and K >= 1: once the n = get_required_input_frame_count(K)
\* frames are added to the cache, get_cached_output_frame_count() is at least K.
C12_RoundTrip ==
    (/\ Called("mal_resampler_get_required_input_frame_count")
     /\ call.outputFrameCount >= 1
     /\ InRatioBounds(rs.config.ratio)
     /\ DGe(rounded_calculate_cached_input_time(rs), ToDouble(0))) =>
        LET fed == [rs EXCEPT !.cacheLengthInFrames = @ + call.ret]
        IN  \A count \in rounded_get_cached_output_frame_count("pResampler", fed) :
                count >= call.outputFrameCount

\* C13: on an initialized engine, get_cached_input_frame_count() is the ceiling
\* of get_cached_input_time() and get_cached_output_frame_count() is the floor
\* of get_cached_output_time().
C13_QueryConsistency ==
    Initialized =>
       /\ Called("mal_resampler_get_cached_input_frame_count") =>
              ToDouble(call.ret) = DCeil(mal_resampler_get_cached_input_time("pResampler", rs))
       /\ Called("mal_resampler_get_cached_output_frame_count") =>
              ToDouble(call.ret) = DFloor(mal_resampler_get_cached_output_time("pResampler", rs))

\* C14: set_rate_ratio(r) on an initialized engine succeeds exactly when
\* MIN_RATIO <= r <= MAX_RATIO; after a success the ratio is r and every other
\* field of the object is as before.
C14_SetRateRatio ==
    [][(Initialized /\ call'.name = "mal_resampler_set_rate_ratio"
            /\ call'.pResampler # NULL) =>
          /\ (call'.ret = MAL_SUCCESS) <=> InRatioBounds(call'.ratio)
          /\ (call'.ret = MAL_SUCCESS) =>
                 rs' = [rs EXCEPT !.config.ratio = call'.ratio]]_vars

\* C15: after a successful init the live ratio is sampleRateIn/sampleRateOut
\* when the config's ratio is 0, and the config's ratio itself when it is not
\* (whatever the rates, zero included).
C15_InitRatio ==
    (call.name = "mal_resampler_init" /\ call.ret = MAL_SUCCESS) =>
        LET cfg == call.pConfig.val
        IN  IF cfg.ratio = ToDouble(0)
            THEN rs.config.ratio =
                     DDiv(ToDouble(cfg.sampleRateIn), ToDouble(cfg.sampleRateOut))
            ELSE rs.config.ratio = cfg.ratio

\* A successful init with an explicit ratio and both rates given.
C15_Witness ==
    /\ call.name = "mal_resampler_init"
    /\ call.ret = MAL_SUCCESS
    /\ call.pConfig.val.ratio = Frac(1, 1)
    /\ call.pConfig.val.sampleRateIn = 48000
    /\ call.pConfig.val.sampleRateOut = 24000
    /\ rs.config.ratio = Frac(1, 1)

\* C16: after an init that returned an error, every read and every seek on the
\* object returns 0, does not call the client's callback, changes nothing in
\* the object and reaches no backend (none of their assertions is evaluated
\* and fails), whatever the frame count, the buffer and the options.
C16_FailedInitUnusable ==
    [][(initResult = MAL_INVALID_ARGS
            /\ call'.name \in {"mal_resampler_read", "mal_resampler_seek"}) =>
          /\ call'.ret = 0
          /\ client' = client
          /\ rs' = rs
          /\ call'.asserts]_vars

\* A read of frames into a buffer on an object whose init failed.
C16_Witness ==
    /\ initResult = MAL_INVALID_ARGS
    /\ Called("mal_resampler_read")
    /\ call.frameCount > 0
    /\ call.ppFrames # NULL
    /\ call.ret = 0

\* C17: a read or a seek of 0 frames returns 0, does not call the client's
\* callback, leaves the object as it was and reaches no backend, in every
\* state of the object and for every buffer and option set.
C17_ZeroFramesNoEffect ==
    [][(call'.name \in {"mal_resampler_read", "mal_resampler_seek"}
            /\ call'.frameCount = 0) =>
          /\ call'.ret = 0
          /\ client' = client
          /\ rs' = rs
          /\ call'.asserts]_vars

\* A seek of 0 frames with both options on an initialized object.
C17_Witness ==
    /\ Initialized
    /\ Called("mal_resampler_seek")
    /\ call.frameCount = 0
    /\ call.options = MAL_RESAMPLER_SEEK_NO_CLIENT_READ + MAL_RESAMPLER_SEEK_INPUT_RATE
    /\ call.ret = 0

\* C18: a seek whose options include MAL_RESAMPLER_SEEK_NO_CLIENT_READ does not
\* call the client's callback, under either algorithm, for every frame count
\* and ratio, with or without MAL_RESAMPLER_SEEK_INPUT_RATE.
C18_NoClientRead ==
    [][(call'.name = "mal_resampler_seek"
            /\ (call'.options \div MAL_RESAMPLER_SEEK_NO_CLIENT_READ) % 2 = 1) =>
          client' = client]_vars

\* Such a seek of frames, past the early returns, in the sinc backend.
C18_Witness ==
    /\ Initialized
    /\ Called("mal_resampler_seek")
    /\ call.options = MAL_RESAMPLER_SEEK_NO_CLIENT_READ
    /\ call.frameCount > 0
    /\ rs.seek = "mal_resampler_seek__sinc"
    /\ client.total > 0

\* C19: in every state after a successful init, whatever reads, seeks,
\* set_rates and set_rate_ratios followed and in both end-of-input modes,
\* get_cached_input_time() is >= 0.
C19_CachedInputTimeNotNegative ==
    Initialized =>
        DGe(mal_resampler_get_cached_input_time("pResampler", rs), ToDouble(0))

\* The query made in NoConsume mode on an initialized object.
C19_Witness ==
    /\ Initialized
    /\ Called("mal_resampler_get_cached_input_time")
    /\ rs.config.endOfInputMode = "mal_resampler_end_of_input_mode_no_consume"
    /\ DGe(call.ret, ToDouble(0))

\* The read and seek procedures bound to s are those of its configured
\* algorithm.
BoundToConfiguredAlgorithm(s) ==
    \/ /\ s.config.algorithm = "mal_resampler_algorithm_linear"
       /\ s.read = "mal_resampler_read__linear"
       /\ s.seek = "mal_resampler_seek__linear"
    \/ /\ s.config.algorithm = "mal_resampler_algorithm_sinc"
       /\ s.read = "mal_resampler_read__sinc"
       /\ s.seek = "mal_resampler_seek__sinc"

\* C21: after a successful init, no set_rate, set_rate_ratio, read, seek,
\* query or uninit changes the configured algorithm or the read and seek
\* procedures bound to the object, and these procedures are the ones of the
\* configured algorithm (linear config: the linear procedures; sinc config:
\* the sinc procedures).
C21_AlgorithmFixed ==
    [][(Initialized /\ call'.name # "mal_resampler_init") =>
          /\ BoundToConfiguredAlgorithm(rs)
          /\ BoundToConfiguredAlgorithm(rs')
          /\ rs'.config.algorithm = rs.config.algorithm
          /\ rs'.read = rs.read
          /\ rs'.seek = rs.seek]_vars

\* A set_rate_ratio that succeeded and changed the ratio of an object
\* initialized for the linear algorithm, whose procedures are still bound.
C21_Witness ==
    /\ Initialized
    /\ Called("mal_resampler_set_rate_ratio")
    /\ call.ret = MAL_SUCCESS
    /\ rs.config.ratio = Frac(2, 1)
    /\ rs.config.algorithm = "mal_resampler_algorithm_linear"
    /\ rs.read = "mal_resampler_read__linear"
    /\ rs.seek = "mal_resampler_seek__linear"

\* sizeof(float) and sizeof(mal_int16), the element sizes of the two views of
\* the cache.
BytesPerSample(format) == IF format = "mal_format_f32" THEN 4 ELSE 2

\* The frames the cache of s can hold: its size in bytes over the size of a
\* sample and over the channel count.
CacheCapacityInFrames(s) ==
    (MAL_RESAMPLER_CACHE_SIZE_IN_BYTES \div BytesPerSample(s.config.format))
        \div s.config.channels

\* C22: in every state reached from a successful init by any sequence of
\* operations, cacheLengthInFrames is at most the capacity of the cache in
\* frames for the configured format and channel count, firstCachedFrameOffset
\* is >= 0, and 0 <= windowTime <= cacheLengthInFrames.
C22_CacheBookkeeping ==
    Initialized =>
        /\ rs.cacheLengthInFrames <= CacheCapacityInFrames(rs)
        /\ rs.firstCachedFrameOffset >= 0
        /\ DGe(rs.windowTime, ToDouble(0))
        /\ DLe(rs.windowTime, ToDouble(rs.cacheLengthInFrames))

\* A read of frames into a buffer has gone through the sinc backend of an
\* initialized s16 object.
C22_Witness ==
    /\ Initialized
    /\ Called("mal_resampler_read")
    /\ call.frameCount > 0
    /\ call.ppFrames # NULL
    /\ call.asserts
    /\ rs.read = "mal_resampler_read__sinc"
    /\ rs.config.format = "mal_format_s16"
    /\ CacheCapacityInFrames(rs) > 0

====
